---- MODULE Spec2Model ----
(***************************************************************************)
(* The REST backend of the starter: the auth routes (login, register),     *)
(* the user routes (GET/PATCH /users/me) and the task routes, over the     *)
(* users and tasks tables.  Every request is handled independently; a     *)
(* handler that awaits more than once is split at its awaits, so that      *)
(* other requests and the clock may run in between.                        *)
(*                                                                         *)
(* Time is counted in weeks.  An optional value (a field that may be        *)
(* undefined, a column that may be null) is a sequence of length 0 or 1.   *)
(***************************************************************************)
EXTENDS Integers, Sequences, FiniteSets, TLC

VARIABLES users, tasks, nextTaskId, now, req, last, view

vars == <<users, tasks, nextTaskId, now, req, last, view>>

(* ------------------------------ bounds --------------------------------- *)
MaxUsers == 2
MaxTasks == 2
MaxTime == 2

Clients == {"c1", "c2"}
Emails == {"a@x.com", "b@x.com"}
EmailInputs == Emails \cup {"not-an-email"}
PasswordInputs == {"pw123456", "pw654321", "short"}
NameInputs == {"A", ""}
Salts == {"s1", "s2"}

undefined == <<>>
Some(v) == <<v>>

(* ------------------------- lib/validation.ts --------------------------- *)
emailSchema(e) == e \in Emails
passwordSchema(p) == Len(p) >= 8
nameSchema(n) == Len(n) >= 1

(* ---------------------------- lib/auth.ts ------------------------------ *)
SALT_ROUNDS == 10
TOKEN_WEEKS == 1

\* bcrypt reads the first 72 bytes of a password and no more
BCRYPT_MAX_BYTES == 72

\* two passwords of 73 bytes that differ in the last one, and the 72 bytes
\* they share
LongPrefix == "correct-horse-battery-staple-correct-horse-battery-staple-correct-horse-"
LongPasswordA == "correct-horse-battery-staple-correct-horse-battery-staple-correct-horse-A"
LongPasswordB == "correct-horse-battery-staple-correct-horse-battery-staple-correct-horse-B"

\* the bytes of the password that bcrypt reads
bcryptKey(password) ==
  IF Len(password) <= BCRYPT_MAX_BYTES THEN password
  ELSE CASE password = LongPasswordA -> LongPrefix
         [] password = LongPasswordB -> LongPrefix

\* bcrypt.hash: a fresh salt, the cost and the digest of (salt, key)
hashPassword(password, salt) ==
  [alg |-> "2b", cost |-> SALT_ROUNDS, salt |-> salt,
   digest |-> <<salt, bcryptKey(password)>>]

\* bcrypt.compare: recompute with the hash's salt and compare
verifyPassword(password, hash) ==
  hash.digest = <<hash.salt, bcryptKey(password)>>

\* a signer that puts the id under another key: the payload has no userId
generateTokenWithoutUserId(userId) ==
  [kind |-> "jwt", userId |-> 0, iat |-> now, exp |-> now + TOKEN_WEEKS,
   sig |-> "server"]

\* request.server.jwt.sign({ userId }, { expiresIn: '7d' }): '7d' is one week
generateToken(userId) ==
  [kind |-> "jwt", userId |-> userId, iat |-> now, exp |-> now + TOKEN_WEEKS,
   sig |-> "server"]

NoCred == [kind |-> "absent", userId |-> 0, iat |-> 0, exp |-> 0, sig |-> "none"]
MalformedCred == [kind |-> "malformed", userId |-> 0, iat |-> 0, exp |-> 0, sig |-> "none"]

\* a verification that also consults the store: a write of the user's row
\* revokes the tokens issued up to then
jwtVerifyRevokedByUpdate(cred, t) ==
  IF cred.kind = "absent" THEN "missing"
  ELSE IF cred.kind = "malformed" THEN "invalid"
  ELSE IF cred.sig # "server" THEN "invalid"
  ELSE IF t >= cred.exp THEN "expired"
  ELSE IF \E u \in users : /\ u.id = cred.userId
                            /\ u.updatedAt > u.createdAt
                            /\ u.updatedAt >= cred.iat
  THEN "invalid"
  ELSE "ok"

\* request.jwtVerify(): "ok", or the reason it throws
jwtVerify(cred, t) ==
  IF cred.kind = "absent" THEN "missing"
  ELSE IF cred.kind = "malformed" THEN "invalid"
  ELSE IF cred.sig # "server" THEN "invalid"
  ELSE IF t >= cred.exp THEN "expired"
  ELSE "ok"

(* ------------------------------ errors --------------------------------- *)
\* an error as thrown: name, message and an optional statusCode
Err(name, message, statusCode) ==
  [name |-> name, message |-> message, statusCode |-> statusCode]

\* @fastify/jwt's errors carry statusCode 401
JwtError(reason) ==
  Err("FastifyError",
      CASE reason = "missing" -> "No Authorization was found in request.headers"
        [] reason = "expired" -> "Authorization token expired"
        [] OTHER -> "Authorization token is invalid",
      Some(401))

\* @fastify/sensible's reply helpers
unauthorized(msg) == Err("UnauthorizedError", msg, Some(401))
\* a duplicate reported as a bad request
conflictAsBadRequest(msg) == Err("BadRequestError", msg, Some(400))

conflict(msg) == Err("ConflictError", msg, Some(409))
notFound(msg) == Err("NotFoundError", msg, Some(404))
badRequest(msg) == Err("BadRequestError", msg, Some(400))
\* fastify's schema validation failure
ValidationErr == Err("Error", "body is invalid", Some(400))
\* the store's unique-constraint violation: a driver error with no statusCode
UniqueViolation ==
  Err("PostgresError", "duplicate key value violates unique constraint", undefined)

\* fastify.setErrorHandler
errorHandler(error) ==
  LET statusCode == IF error.statusCode = undefined THEN 500 ELSE error.statusCode[1]
  IN [status |-> statusCode,
      body |-> [error |-> error.name, message |-> error.message,
                statusCode |-> statusCode]]

\* a handler's returned value, sent with 200
Ok(payload) == [status |-> 200, body |-> payload]

\* getUserIdFromToken: the payload's userId, or a plain Error
getUserIdFromToken(cred, t) ==
  IF jwtVerify(cred, t) = "ok"
  THEN [ok |-> TRUE, userId |-> cred.userId, error |-> Err("", "", undefined)]
  ELSE [ok |-> FALSE, userId |-> 0,
        error |-> Err("Error", "Invalid or missing token", undefined)]

(* ------------------------------- store --------------------------------- *)
UserIds == {u.id : u \in users}
UsersByEmail(email) == {u \in users : u.email = email}
UserById(id) == {u \in users : u.id = id}

\* the whole row, password hash included
PublicUserWholeRow(u) == u

\* the API's User: the row without its password hash
PublicUser(u) ==
  [id |-> u.id, email |-> u.email, name |-> u.name,
   createdAt |-> u.createdAt, updatedAt |-> u.updatedAt]

\* users.email is unique(): an insert of a taken email is rejected
InsertUserViolates(email) == UsersByEmail(email) # {}

NewUserRow(email, passwordHash, name) ==
  [id |-> Cardinality(users) + 1, email |-> email, name |-> name,
   passwordHash |-> passwordHash, createdAt |-> now, updatedAt |-> now]

(* ----------------------------- requests -------------------------------- *)
\* a request in flight: where its handler stands, and what it holds
Idle == [pc |-> "idle", route |-> "none", cred |-> NoCred, body |-> [k |-> "none"],
         dbCalls |-> 0]

\* the response the latest step sent, with the request it answers (the
\* operation, its input, the number of store calls made for it); NoLast when
\* the latest step sent none
NoLast == [client |-> "none", op |-> "none", input |-> [k |-> "none"], status |-> 0,
           body |-> [k |-> "none"], dbCalls |-> 0]

\* what a client may present: nothing, garbage, a token the server issued to
\* an existing user in some week since that user was created, or a token
\* for that user signed with another key
Creds ==
  {NoCred, MalformedCred} \cup
  UNION {{[kind |-> "jwt", userId |-> u.id, iat |-> i, exp |-> i + TOKEN_WEEKS,
           sig |-> "server"] : i \in u.createdAt .. now}
         \cup {[kind |-> "jwt", userId |-> u.id, iat |-> now, exp |-> now + TOKEN_WEEKS,
                sig |-> "forged"]} : u \in users}

\* the tokens among them that the server signed
SignedCreds == {cred \in Creds : cred.sig = "server"}

\* the TaskList component's state: its useState values and the calls it
\* awaits, each with the tasks value its closure captured
MaxCalls == 2
NoCall == [kind |-> "none"]
Unmounted ==
  [tasks |-> <<>>, loading |-> TRUE, creating |-> FALSE, failed |-> FALSE,
   calls |-> [k \in 1 .. MaxCalls |-> NoCall]]

Reply(c, op, input, r, dbCalls) ==
  /\ last' = [client |-> c, op |-> op, input |-> input, status |-> r.status,
              body |-> r.body, dbCalls |-> dbCalls]
  /\ req' = [req EXCEPT ![c] = Idle]
  /\ UNCHANGED view

Await(c, pc, route, cred, body, dbCalls) ==
  /\ req' = [req EXCEPT ![c] = [pc |-> pc, route |-> route, cred |-> cred,
                                body |-> body, dbCalls |-> dbCalls]]
  /\ last' = NoLast
  /\ UNCHANGED view

Init ==
  /\ users = {}
  /\ tasks = {}
  /\ nextTaskId = 1
  /\ now = 0
  /\ req = [c \in Clients |-> Idle]
  /\ last = NoLast
  /\ view = Unmounted

Tick ==
  /\ now < MaxTime
  /\ now' = now + 1
  /\ last' = NoLast
  /\ UNCHANGED <<users, tasks, nextTaskId, req, view>>

(* ------------------------ routes/auth/handlers ------------------------- *)
ValidPasswords == {"pw123456", "pw654321"}
ValidLoginBodies == [email : Emails, password : ValidPasswords]
LoginBodies ==
  ValidLoginBodies \cup {[email |-> "not-an-email", password |-> "pw123456"],
                         [email |-> "a@x.com", password |-> "short"]}
ValidRegisterBodies == [email : Emails, password : ValidPasswords, name : {"A"}]
RegisterBodies ==
  ValidRegisterBodies \cup {[email |-> "not-an-email", password |-> "pw123456", name |-> "A"],
                            [email |-> "a@x.com", password |-> "short", name |-> "A"],
                            [email |-> "a@x.com", password |-> "pw123456", name |-> ""]}

loginSchema(b) == emailSchema(b.email) /\ passwordSchema(b.password)
registerSchema(b) == loginSchema(b) /\ nameSchema(b.name)

\* the seconds of the model's unit of time: 7 * 24 * 60 * 60
WeekSeconds == 7 * 24 * 60 * 60

\* a response that announces a lifetime of one day
AuthResponseOneDay(u, token) ==
  [user |-> PublicUser(u), token |-> token, expiresIn |-> 24 * 60 * 60]

AuthResponse(u, token) ==
  [user |-> PublicUser(u), token |-> token, expiresIn |-> 7 * 24 * 60 * 60]

\* a login that tells an unknown email from a wrong password
loginHandlerTellsUnknownEmail(b) ==
  IF UsersByEmail(b.email) = {}
  THEN errorHandler(notFound("User not found"))
  ELSE LET user == CHOOSE u \in UsersByEmail(b.email) : TRUE
       IN IF ~verifyPassword(b.password, user.passwordHash)
          THEN errorHandler(unauthorized("Invalid email or password"))
          ELSE Ok(AuthResponse(user, generateToken(user.id)))

\* loginHandler
loginHandler(b) ==
  IF UsersByEmail(b.email) = {}
  THEN errorHandler(unauthorized("Invalid email or password"))
  ELSE LET user == CHOOSE u \in UsersByEmail(b.email) : TRUE
       IN IF ~verifyPassword(b.password, user.passwordHash)
          THEN errorHandler(unauthorized("Invalid email or password"))
          ELSE Ok(AuthResponse(user, generateToken(user.id)))

Login(c, b) ==
  /\ req[c].pc = "idle"
  /\ IF ~loginSchema(b)
     THEN Reply(c, "login", b, errorHandler(ValidationErr), 0)
     ELSE Reply(c, "login", b, loginHandler(b), 1)
  /\ UNCHANGED <<users, tasks, nextTaskId, now>>

\* rows the model can still hold: the registrations past their check count
RoomForUser ==
  Cardinality(users) + Cardinality({d \in Clients : req[d].pc = "insert"}) < MaxUsers

\* registerHandler up to its second store call: the existence check
RegisterCheck(c, b) ==
  /\ req[c].pc = "idle"
  /\ IF ~registerSchema(b)
     THEN Reply(c, "register", b, errorHandler(ValidationErr), 0)
     ELSE IF UsersByEmail(b.email) # {}
     THEN Reply(c, "register", b,
                errorHandler(conflict("User with this email already exists")), 1)
     ELSE /\ RoomForUser
          /\ Await(c, "insert", "auth", NoCred, b, 1)
  /\ UNCHANGED <<users, tasks, nextTaskId, now>>

\* registerHandler from the hash on: hash, insert, token
RegisterInsert(c, salt) ==
  /\ req[c].pc = "insert"
  /\ LET b == req[c].body IN
       IF InsertUserViolates(b.email)
       THEN /\ Reply(c, "register", b, errorHandler(UniqueViolation), 2)
            /\ UNCHANGED users
       ELSE LET newUser == NewUserRow(b.email, hashPassword(b.password, salt), b.name)
            IN /\ users' = users \cup {newUser}
               /\ Reply(c, "register", b,
                        Ok(AuthResponse(newUser, generateToken(newUser.id))), 2)
  /\ UNCHANGED <<tasks, nextTaskId, now>>

(* --------------------- the routes' onRequest hook ---------------------- *)
\* a route registered without the hook
onRequestWithoutVerify(c, route, cred) ==
  /\ req[c].pc = "idle"
  /\ Await(c, "handler", route, cred, [k |-> "none"], 0)
  /\ UNCHANGED <<users, tasks, nextTaskId, now>>

\* a request arrives at a task or user route: the plugin's onRequest hook
\* runs request.jwtVerify() before the route's handler
onRequest(c, route, cred) ==
  /\ req[c].pc = "idle"
  /\ IF jwtVerify(cred, now) # "ok"
     THEN Reply(c, route, [cred |-> cred], errorHandler(JwtError(jwtVerify(cred, now))), 0)
     ELSE Await(c, "handler", route, cred, [k |-> "none"], 0)
  /\ UNCHANGED <<users, tasks, nextTaskId, now>>

(* ------------------------ routes/users/handlers ------------------------ *)
UpdateUserBodies ==
  [name : {undefined, Some("B")}, email : {undefined} \cup {Some(e) : e \in Emails}]

\* getUserHandler, past the token
getUserHandler(userId) ==
  IF UserById(userId) = {}
  THEN errorHandler(notFound("User not found"))
  ELSE Ok(PublicUser(CHOOSE u \in UserById(userId) : TRUE))

GetUser(c) ==
  /\ req[c].pc = "handler" /\ req[c].route = "users"
  /\ LET who == getUserIdFromToken(req[c].cred, now)
         input == [userId |-> who.userId]
     IN IF ~who.ok
        THEN Reply(c, "getUser", input, errorHandler(who.error), 0)
        ELSE Reply(c, "getUser", input, getUserHandler(who.userId), 1)
  /\ UNCHANGED <<users, tasks, nextTaskId, now>>

\* a string is falsy when it is undefined or empty
Falsy(opt) == opt = undefined \/ opt = Some("")

\* updateUserHandler up to its store call: the token, the body, the timestamp
UpdateUserPrepare(c, b) ==
  /\ req[c].pc = "handler" /\ req[c].route = "users"
  /\ LET who == getUserIdFromToken(req[c].cred, now)
         input == [userId |-> who.userId, name |-> b.name, email |-> b.email]
     IN IF ~who.ok
        THEN Reply(c, "updateUser", input, errorHandler(who.error), 0)
        ELSE IF Falsy(b.name) /\ Falsy(b.email)
        THEN Reply(c, "updateUser", input,
                   errorHandler(badRequest("At least one field must be provided")), 0)
        ELSE Await(c, "write", "users", NoCred,
                   [userId |-> who.userId,
                    name |-> IF Falsy(b.name) THEN undefined ELSE b.name,
                    email |-> IF Falsy(b.email) THEN undefined ELSE b.email,
                    updatedAt |-> now], 0)
  /\ UNCHANGED <<users, tasks, nextTaskId, now>>

\* the row after UPDATE ... SET updateData
SetUser(u, d) ==
  [u EXCEPT !.name = IF d.name = undefined THEN @ ELSE d.name[1],
            !.email = IF d.email = undefined THEN @ ELSE d.email[1],
            !.updatedAt = d.updatedAt]

\* a users table without the unique index on email
UpdateUserNeverViolates(userId, d) == FALSE

\* users.email is unique(): an update to an email another row holds is rejected
UpdateUserViolates(userId, d) ==
  /\ d.email # undefined
  /\ \E o \in users : o.id # userId /\ o.email = d.email[1]

\* updateUserHandler from its store call on
UpdateUserWrite(c) ==
  /\ req[c].pc = "write" /\ req[c].route = "users"
  /\ LET d == req[c].body
     IN IF UserById(d.userId) = {}
        THEN /\ Reply(c, "updateUser", d, errorHandler(notFound("User not found")), 1)
             /\ UNCHANGED users
        ELSE IF UpdateUserViolates(d.userId, d)
        THEN /\ Reply(c, "updateUser", d, errorHandler(UniqueViolation), 1)
             /\ UNCHANGED users
        ELSE LET old == CHOOSE u \in UserById(d.userId) : TRUE
                 updatedUser == SetUser(old, d)
             IN /\ users' = (users \ {old}) \cup {updatedUser}
                /\ Reply(c, "updateUser", d, Ok(PublicUser(updatedUser)), 1)
  /\ UNCHANGED <<tasks, nextTaskId, now>>

(* ------------------------ routes/tasks/handlers ------------------------ *)
\* the task routes declare no schema: a body or query field may be missing
TaskIdInputs == 1 .. MaxTasks
CreateTaskBodies ==
  [title : {undefined, Some(""), Some("t")}, description : {undefined, Some(""), Some("d")}]
UpdateTaskBodies ==
  [title : {undefined, Some("u")}, description : {undefined, Some("e")},
   completed : {undefined, Some(TRUE), Some(FALSE)}]
\* the query string of GET /tasks as fastify parses it without a schema:
\* every value that is present is a string
ListQueries ==
  [page : {undefined, Some("0"), Some("1"), Some("2"), Some("3")},
   limit : {undefined, Some("0"), Some("1"), Some("2"), Some("101")},
   completed : {undefined, Some("true"), Some("false")}]

\* a JavaScript value that goes into the response as JSON: a number, a
\* string, or the null that JSON.stringify writes for NaN and Infinity
Num(n) == [num |-> n]
Str(s) == [str |-> s]
JNull == [null |-> TRUE]

\* the number a numeric string converts to in arithmetic
Digits == ("0" :> 0) @@ ("1" :> 1) @@ ("2" :> 2) @@ ("3" :> 3) @@ ("101" :> 101)
ToNumber(v) == IF "num" \in DOMAIN v THEN v.num ELSE Digits[v.str]

\* a where clause on the id alone
TaskRowsAnyOwner(id, userId) == {t \in tasks : t.id = id}

\* WHERE id = id AND user_id = userId
TaskRows(id, userId) == {t \in tasks : t.id = id /\ t.userId = userId}

\* the tasks table's NOT NULL title: a driver error with no statusCode
NotNullViolation ==
  Err("PostgresError", "null value in column violates not-null constraint", undefined)

\* getTaskHandler, past the token
getTaskHandler(userId, id) ==
  IF TaskRows(id, userId) = {}
  THEN errorHandler(notFound("Task not found"))
  ELSE Ok(CHOOSE t \in TaskRows(id, userId) : TRUE)

GetTask(c, id) ==
  /\ req[c].pc = "handler" /\ req[c].route = "tasks"
  /\ LET who == getUserIdFromToken(req[c].cred, now)
         input == [userId |-> who.userId, id |-> id]
     IN IF ~who.ok
        THEN Reply(c, "getTask", input, errorHandler(who.error), 0)
        ELSE Reply(c, "getTask", input, getTaskHandler(who.userId, id), 1)
  /\ UNCHANGED <<users, tasks, nextTaskId, now>>

\* an insert that spreads the request body over the row
NewTaskRowTrustsBody(userId, b) ==
  [id |-> nextTaskId,
   userId |-> IF "userId" \in DOMAIN b /\ b.userId # undefined THEN b.userId[1] ELSE userId,
   title |-> b.title[1],
   description |-> IF Falsy(b.description) THEN undefined ELSE b.description,
   completed |-> IF "completed" \in DOMAIN b /\ b.completed # undefined
                 THEN b.completed[1] ELSE FALSE,
   createdAt |-> now, updatedAt |-> now]

\* the row INSERT ... RETURNING gives: id, completed and the timestamps are
\* the table's defaults; description || null
NewTaskRow(userId, b) ==
  [id |-> nextTaskId, userId |-> userId, title |-> b.title[1],
   description |-> IF Falsy(b.description) THEN undefined ELSE b.description,
   completed |-> FALSE, createdAt |-> now, updatedAt |-> now]

\* createTaskHandler
CreateTask(c, b) ==
  /\ req[c].pc = "handler" /\ req[c].route = "tasks"
  /\ LET who == getUserIdFromToken(req[c].cred, now)
         input == [userId |-> who.userId, title |-> b.title, description |-> b.description,
                  body |-> b]
     IN IF ~who.ok
        THEN /\ Reply(c, "createTask", input, errorHandler(who.error), 0)
             /\ UNCHANGED <<tasks, nextTaskId>>
        ELSE IF b.title = undefined
        THEN /\ Reply(c, "createTask", input, errorHandler(NotNullViolation), 1)
             /\ UNCHANGED <<tasks, nextTaskId>>
        ELSE /\ nextTaskId <= MaxTasks
             /\ tasks' = tasks \cup {NewTaskRow(who.userId, b)}
             /\ nextTaskId' = nextTaskId + 1
             /\ Reply(c, "createTask", input, Ok(NewTaskRow(who.userId, b)), 1)
  /\ UNCHANGED <<users, now>>

\* an update handler that goes to the store whatever the body holds
UpdateTaskPrepareUnchecked(c, id, b) ==
  /\ req[c].pc = "handler" /\ req[c].route = "tasks"
  /\ LET who == getUserIdFromToken(req[c].cred, now)
         updateData == [userId |-> who.userId, id |-> id, title |-> b.title,
                        description |-> b.description, completed |-> b.completed,
                        updatedAt |-> now]
     IN IF ~who.ok
        THEN Reply(c, "updateTask", updateData, errorHandler(who.error), 0)
        ELSE Await(c, "write", "tasks", NoCred, updateData, 0)
  /\ UNCHANGED <<users, tasks, nextTaskId, now>>

\* updateTaskHandler up to its store call: the token, the body, the timestamp
UpdateTaskPrepare(c, id, b) ==
  /\ req[c].pc = "handler" /\ req[c].route = "tasks"
  /\ LET who == getUserIdFromToken(req[c].cred, now)
         updateData == [userId |-> who.userId, id |-> id, title |-> b.title,
                        description |-> b.description, completed |-> b.completed,
                        updatedAt |-> now]
     IN IF ~who.ok
        THEN Reply(c, "updateTask", updateData, errorHandler(who.error), 0)
        ELSE IF b.title = undefined /\ b.description = undefined /\ b.completed = undefined
        THEN Reply(c, "updateTask", updateData,
                   errorHandler(badRequest("At least one field must be provided")), 0)
        ELSE Await(c, "write", "tasks", NoCred, updateData, 0)
  /\ UNCHANGED <<users, tasks, nextTaskId, now>>

\* an UPDATE that also resets created_at
SetTaskTouchesCreatedAt(t, d) ==
  [t EXCEPT !.title = IF d.title = undefined THEN @ ELSE d.title[1],
            !.description = IF d.description = undefined THEN @ ELSE d.description,
            !.completed = IF d.completed = undefined THEN @ ELSE d.completed[1],
            !.createdAt = d.updatedAt,
            !.updatedAt = d.updatedAt]

\* an UPDATE that writes every column, the absent fields as empty
SetTaskOverwrites(t, d) ==
  [t EXCEPT !.title = IF d.title = undefined THEN "" ELSE d.title[1],
            !.description = d.description,
            !.completed = IF d.completed = undefined THEN FALSE ELSE d.completed[1],
            !.updatedAt = d.updatedAt]

\* the row after UPDATE ... SET updateData
SetTask(t, d) ==
  [t EXCEPT !.title = IF d.title = undefined THEN @ ELSE d.title[1],
            !.description = IF d.description = undefined THEN @ ELSE d.description,
            !.completed = IF d.completed = undefined THEN @ ELSE d.completed[1],
            !.updatedAt = d.updatedAt]

\* an UPDATE guarded by a version check: a row already updated at or after
\* the request's timestamp is returned as it is
UpdatedRowsFirstWriterWins(d) ==
  {IF t.updatedAt > t.createdAt /\ t.updatedAt >= d.updatedAt THEN t ELSE SetTask(t, d) :
     t \in TaskRows(d.id, d.userId)}

\* the rows UPDATE ... WHERE id AND user_id ... RETURNING gives
UpdatedRows(d) == {SetTask(t, d) : t \in TaskRows(d.id, d.userId)}

\* updateTaskHandler's response to what the store returned
updateTaskHandler(d) ==
  IF UpdatedRows(d) = {}
  THEN errorHandler(notFound("Task not found"))
  ELSE Ok(CHOOSE t \in UpdatedRows(d) : TRUE)

\* updateTaskHandler from its store call on
UpdateTaskWrite(c) ==
  /\ req[c].pc = "write" /\ req[c].route = "tasks"
  /\ LET d == req[c].body IN
       /\ tasks' = (tasks \ TaskRows(d.id, d.userId)) \cup UpdatedRows(d)
       /\ Reply(c, "updateTask", d, updateTaskHandler(d), 1)
  /\ UNCHANGED <<users, nextTaskId, now>>

\* a delete that reports success whatever the store returned
deleteTaskHandlerAlwaysOk(userId, id) == Ok([success |-> TRUE])

\* deleteTaskHandler's response to what the store returned
deleteTaskHandler(userId, id) ==
  IF TaskRows(id, userId) = {}
  THEN errorHandler(notFound("Task not found"))
  ELSE Ok([success |-> TRUE])

DeleteTask(c, id) ==
  /\ req[c].pc = "handler" /\ req[c].route = "tasks"
  /\ LET who == getUserIdFromToken(req[c].cred, now)
         input == [userId |-> who.userId, id |-> id]
     IN IF ~who.ok
        THEN /\ Reply(c, "deleteTask", input, errorHandler(who.error), 0)
             /\ UNCHANGED tasks
        ELSE /\ tasks' = tasks \ TaskRows(id, who.userId)
             /\ Reply(c, "deleteTask", input, deleteTaskHandler(who.userId, id), 1)
  /\ UNCHANGED <<users, nextTaskId, now>>

\* a list that drops the completed filter from its where clause
MatchingIgnoresCompleted(userId, completed) == {t \in tasks : t.userId = userId}

\* a list without the owner in its where clause
MatchingAnyOwner(userId, completed) ==
  {t \in tasks : completed = undefined \/ t.completed = completed[1]}

\* the rows of the list's where clause
Matching(userId, completed) ==
  {t \in tasks : t.userId = userId /\ (completed = undefined \/ t.completed = completed[1])}

\* ORDER BY created_at DESC: every order of the rows with createdAt not
\* increasing; rows of equal createdAt come in any order
RECURSIVE Orderings(_)
Orderings(S) ==
  IF S = {} THEN {<<>>}
  ELSE UNION {{<<t>> \o rest : rest \in Orderings(S \ {t})} :
                t \in {x \in S : \A y \in S : y.createdAt <= x.createdAt}}

Min(a, b) == IF a < b THEN a ELSE b

\* LIMIT limit OFFSET offset
Page(ord, limit, offset) == SubSeq(ord, offset + 1, Min(offset + limit, Len(ord)))

\* Math.ceil(total / limit)
CeilDiv(total, limit) == (total + limit - 1) \div limit

\* the store's rejection of a negative OFFSET or LIMIT: a driver error
NegativeOffset ==
  Err("PostgresError", "OFFSET must not be negative", undefined)

\* listTasksHandler up to its second store call: the token, the query with
\* its defaults, the page of rows
ListTasksSelect(c, q) ==
  /\ req[c].pc = "handler" /\ req[c].route = "tasks"
  /\ LET who == getUserIdFromToken(req[c].cred, now)
         page == IF q.page = undefined THEN Num(1) ELSE Str(q.page[1])
         limit == IF q.limit = undefined THEN Num(20) ELSE Str(q.limit[1])
         completed == IF q.completed = undefined THEN undefined
                      ELSE Some(q.completed[1] = "true")
         offset == (ToNumber(page) - 1) * ToNumber(limit)
         query == [userId |-> who.userId, page |-> page, limit |-> limit,
                   completed |-> completed]
     IN IF ~who.ok
        THEN Reply(c, "listTasks", query, errorHandler(who.error), 0)
        ELSE IF offset < 0
        THEN Reply(c, "listTasks", query, errorHandler(NegativeOffset), 1)
        ELSE \E ord \in Orderings(Matching(who.userId, completed)) :
               Await(c, "count", "tasks", NoCred,
                     [query |-> query, taskList |-> Page(ord, ToNumber(limit), offset)], 1)
  /\ UNCHANGED <<users, tasks, nextTaskId, now>>

\* Math.ceil(total / limit) as the response carries it: total / 0 is
\* Infinity or NaN
totalPages(total, limit) ==
  IF limit = 0 THEN JNull ELSE Num(CeilDiv(total, limit))

\* listTasksHandler from its second store call on: the count, the response
ListTasksCount(c) ==
  /\ req[c].pc = "count" /\ req[c].route = "tasks"
  /\ LET d == req[c].body
         total == Cardinality(Matching(d.query.userId, d.query.completed))
     IN Reply(c, "listTasks", d.query,
              Ok([data |-> d.taskList,
                  pagination |-> [page |-> d.query.page, limit |-> d.query.limit,
                                  total |-> Num(total),
                                  totalPages |-> totalPages(total, ToNumber(d.query.limit))]]), 2)
  /\ UNCHANGED <<users, tasks, nextTaskId, now>>

(* ---------------------- web/components/TaskList ------------------------ *)
\* a call of the api client that the component awaits: what it was called
\* with, the tasks value of the render whose handler made it, and, once the
\* server has answered, whether it succeeded and the rows it returned
Call(kind, id, completed, title, closure) ==
  [kind |-> kind, id |-> id, completed |-> completed, title |-> title,
   closure |-> closure, pc |-> "sent", ok |-> FALSE, rows |-> <<>>]

FreeSlots == {k \in 1 .. MaxCalls : view.calls[k] = NoCall}

\* the component after mount: useEffect has called loadTasks
Mounted == [Unmounted EXCEPT !.calls[1] = Call("list", 0, FALSE, "", <<>>)]

\* createTask up to its await; the Add button is disabled while creating
StartCreate(k, title) ==
  /\ ~view.loading /\ ~view.creating /\ title # ""
  /\ k \in FreeSlots
  /\ view' = [view EXCEPT !.creating = TRUE, !.calls[k] = Call("create", 0, FALSE, title, view.tasks)]
  /\ UNCHANGED <<users, tasks, nextTaskId, now, req, last>>

\* toggleTask(task) up to its await, for the task of a displayed row
StartToggle(k, i) ==
  /\ ~view.loading
  /\ k \in FreeSlots /\ i \in 1 .. Len(view.tasks)
  /\ view' = [view EXCEPT
                !.calls[k] = Call("toggle", view.tasks[i].id, ~view.tasks[i].completed, "",
                                  view.tasks)]
  /\ UNCHANGED <<users, tasks, nextTaskId, now, req, last>>

\* deleteTask(task.id) up to its await
StartDelete(k, i) ==
  /\ ~view.loading
  /\ k \in FreeSlots /\ i \in 1 .. Len(view.tasks)
  /\ view' = [view EXCEPT !.calls[k] = Call("delete", view.tasks[i].id, FALSE, "", view.tasks)]
  /\ UNCHANGED <<users, tasks, nextTaskId, now, req, last>>

\* the server handles the call of a logged-in user with a valid token: the
\* store operation of the route's handler and the rows of its response
Answer(k, ok, rows) ==
  view' = [view EXCEPT !.calls[k].pc = "answered", !.calls[k].ok = ok, !.calls[k].rows = rows]

ServeCall(k, userId) ==
  /\ view.calls[k] # NoCall /\ view.calls[k].pc = "sent"
  /\ LET call == view.calls[k]
         d == [userId |-> userId, id |-> call.id, title |-> undefined,
               description |-> undefined, completed |-> Some(call.completed),
               updatedAt |-> now]
         b == [title |-> Some(call.title), description |-> undefined]
     IN \/ /\ call.kind = "list"
           /\ \E ord \in Orderings(Matching(userId, undefined)) : Answer(k, TRUE, Page(ord, 20, 0))
           /\ UNCHANGED <<tasks, nextTaskId>>
        \/ /\ call.kind = "create"
           /\ nextTaskId <= MaxTasks
           /\ tasks' = tasks \cup {NewTaskRow(userId, b)}
           /\ nextTaskId' = nextTaskId + 1
           /\ Answer(k, TRUE, <<NewTaskRow(userId, b)>>)
        \/ /\ call.kind = "toggle"
           /\ tasks' = (tasks \ TaskRows(d.id, userId)) \cup UpdatedRows(d)
           /\ IF UpdatedRows(d) = {} THEN Answer(k, FALSE, <<>>)
              ELSE Answer(k, TRUE, <<CHOOSE t \in UpdatedRows(d) : TRUE>>)
           /\ UNCHANGED nextTaskId
        \/ /\ call.kind = "delete"
           /\ tasks' = tasks \ TaskRows(call.id, userId)
           /\ Answer(k, TaskRows(call.id, userId) # {}, <<>>)
           /\ UNCHANGED nextTaskId
  /\ UNCHANGED <<users, now, req, last>>

\* tasks.map((t) => (t.id === id ? updated : t))
RECURSIVE MapReplace(_, _, _)
MapReplace(list, id, updated) ==
  IF list = <<>> THEN <<>>
  ELSE <<IF Head(list).id = id THEN updated ELSE Head(list)>>
         \o MapReplace(Tail(list), id, updated)

\* tasks.filter((t) => t.id !== id)
RECURSIVE FilterOut(_, _)
FilterOut(list, id) ==
  IF list = <<>> THEN <<>>
  ELSE (IF Head(list).id = id THEN <<>> ELSE <<Head(list)>>) \o FilterOut(Tail(list), id)

\* the handler's continuation after its await: setTasks with the tasks value
\* its closure captured, or the catch block that logs the error
ResolveCall(k) ==
  /\ view.calls[k] # NoCall /\ view.calls[k].pc = "answered"
  /\ LET call == view.calls[k]
         setTasks == IF ~call.ok THEN view.tasks
                     ELSE IF call.kind = "list" THEN call.rows
                     ELSE IF call.kind = "create" THEN <<call.rows[1]>> \o call.closure
                     ELSE IF call.kind = "toggle"
                     THEN MapReplace(call.closure, call.id, call.rows[1])
                     ELSE FilterOut(call.closure, call.id)
     IN view' = [view EXCEPT !.tasks = setTasks,
                             !.failed = @ \/ ~call.ok,
                             !.loading = IF call.kind = "list" THEN FALSE ELSE @,
                             !.creating = IF call.kind = "create" THEN FALSE ELSE @,
                             !.calls[k] = NoCall]
  /\ UNCHANGED <<users, tasks, nextTaskId, now, req, last>>

(* --------------------------- specifications ---------------------------- *)
\* the whole backend
Next ==
  \/ Tick
  \/ \E c \in Clients, b \in LoginBodies : Login(c, b)
  \/ \E c \in Clients, b \in RegisterBodies : RegisterCheck(c, b)
  \/ \E c \in Clients, salt \in Salts : RegisterInsert(c, salt)
  \/ \E c \in Clients, route \in {"users", "tasks"}, cred \in Creds : onRequest(c, route, cred)
  \/ \E c \in Clients : GetUser(c)
  \/ \E c \in Clients, b \in UpdateUserBodies : UpdateUserPrepare(c, b)
  \/ \E c \in Clients : UpdateUserWrite(c)
  \/ \E c \in Clients, q \in ListQueries : ListTasksSelect(c, q)
  \/ \E c \in Clients : ListTasksCount(c)
  \/ \E c \in Clients, id \in TaskIdInputs : GetTask(c, id)
  \/ \E c \in Clients, b \in CreateTaskBodies : CreateTask(c, b)
  \/ \E c \in Clients, id \in TaskIdInputs, b \in UpdateTaskBodies : UpdateTaskPrepare(c, id, b)
  \/ \E c \in Clients : UpdateTaskWrite(c)
  \/ \E c \in Clients, id \in TaskIdInputs : DeleteTask(c, id)

Spec == Init /\ [][Next]_vars

\* The state space of Spec is the product of everything above.  The
\* specifications below are Spec restricted to the routes a group of
\* properties is about: each starts in a state Spec reaches and takes steps
\* of Next only, so each of their behaviours is (a suffix of) one of Spec's.

\* the auth routes, over time
NextAuth ==
  \/ Tick
  \/ \E c \in Clients, b \in LoginBodies : Login(c, b)
  \/ \E c \in Clients, b \in RegisterBodies : RegisterCheck(c, b)
  \/ \E c \in Clients, salt \in Salts : RegisterInsert(c, salt)

SpecAuth == Init /\ [][NextAuth]_vars

\* register, login and the user routes within one week
PlainRegisterBodies == [email : Emails, password : {"pw123456"}, name : {"A"}]

NextUsers ==
  \/ \E c \in Clients, b \in PlainRegisterBodies : Login(c, [email |-> b.email, password |-> b.password])
  \/ \E c \in Clients, b \in PlainRegisterBodies : RegisterCheck(c, b)
  \/ \E c \in Clients : RegisterInsert(c, "s1")
  \/ \E c \in Clients, cred \in Creds : onRequest(c, "users", cred)
  \/ \E c \in Clients : GetUser(c)
  \/ \E c \in Clients, b \in UpdateUserBodies : UpdateUserPrepare(c, b)
  \/ \E c \in Clients : UpdateUserWrite(c)

SpecUsers == Init /\ [][NextUsers]_vars

\* two users registered in week 0, as register leaves them
UserA ==
  [id |-> 1, email |-> "a@x.com", name |-> "A",
   passwordHash |-> hashPassword("pw123456", "s1"), createdAt |-> 0, updatedAt |-> 0]
UserB ==
  [id |-> 2, email |-> "b@x.com", name |-> "A",
   passwordHash |-> hashPassword("pw654321", "s2"), createdAt |-> 0, updatedAt |-> 0]

InitTwoUsers ==
  /\ users = {UserA, UserB}
  /\ tasks = {}
  /\ nextTaskId = 1
  /\ now = 0
  /\ req = [c \in Clients |-> Idle]
  /\ last = NoLast
  /\ view = Unmounted

\* the task routes within one week, for two registered users
PlainCreateBodies ==
  {[title |-> Some("t"), description |-> undefined],
   [title |-> undefined, description |-> undefined]}
PlainUpdateBodies ==
  {[title |-> Some("u"), description |-> undefined, completed |-> undefined],
   [title |-> undefined, description |-> undefined, completed |-> undefined]}
PlainListQueries ==
  {[page |-> undefined, limit |-> undefined, completed |-> undefined]}

NextTasks ==
  \/ \E c \in Clients, cred \in SignedCreds \cup {NoCred} : onRequest(c, "tasks", cred)
  \/ \E c \in Clients, q \in PlainListQueries : ListTasksSelect(c, q)
  \/ \E c \in Clients : ListTasksCount(c)
  \/ \E c \in Clients, id \in TaskIdInputs : GetTask(c, id)
  \/ \E c \in Clients, b \in PlainCreateBodies : CreateTask(c, b)
  \/ \E c \in Clients, id \in TaskIdInputs, b \in PlainUpdateBodies : UpdateTaskPrepare(c, id, b)
  \/ \E c \in Clients : UpdateTaskWrite(c)
  \/ \E c \in Clients, id \in TaskIdInputs : DeleteTask(c, id)

SpecTasks == InitTwoUsers /\ [][NextTasks]_vars

\* one client's requests to GET /users/me and to the one-step task routes
\* while the clock runs

NextExpiry ==
  \/ Tick
  \/ \E route \in {"users", "tasks"}, cred \in Creds : onRequest("c1", route, cred)
  \/ GetUser("c1")
  \/ \E q \in PlainListQueries : ListTasksSelect("c1", q)
  \/ ListTasksCount("c1")
  \/ \E id \in TaskIdInputs : GetTask("c1", id)
  \/ \E b \in PlainCreateBodies : CreateTask("c1", b)
  \/ \E id \in TaskIdInputs : DeleteTask("c1", id)

SpecExpiry == InitTwoUsers /\ [][NextExpiry]_vars

\* paging: user A owns MaxTasks tasks created in the same week (the first
\* one completed since), user B owns none, and two clients list while no
\* request changes a task
TaskOfA(id) ==
  [id |-> id, userId |-> UserA.id, title |-> "t", description |-> undefined,
   completed |-> (id = 1), createdAt |-> 0, updatedAt |-> 0]

InitPaging ==
  /\ users = {UserA, UserB}
  /\ tasks = {TaskOfA(id) : id \in 1 .. MaxTasks}
  /\ nextTaskId = MaxTasks + 1
  /\ now = 0
  /\ req = [c \in Clients |-> Idle]
  /\ last = NoLast
  /\ view = Unmounted

NextPaging ==
  \/ \E c \in Clients, cred \in SignedCreds : onRequest(c, "tasks", cred)
  \/ \E c \in Clients, q \in ListQueries : ListTasksSelect(c, q)
  \/ \E c \in Clients : ListTasksCount(c)

SpecPaging == InitPaging /\ [][NextPaging]_vars

\* user A's updates of its own row and of its one task while the clock runs
EmptyOrNameBodies ==
  {[name |-> undefined, email |-> undefined], [name |-> Some(""), email |-> undefined],
   [name |-> Some("B"), email |-> undefined]}

InitUpdates ==
  /\ users = {UserA, UserB}
  /\ tasks = {TaskOfA(1)}
  /\ nextTaskId = 2
  /\ now = 0
  /\ req = [c \in Clients |-> Idle]
  /\ last = NoLast
  /\ view = Unmounted

NextUpdates ==
  \/ Tick
  \/ \E route \in {"users", "tasks"}, cred \in {k \in SignedCreds : k.userId = UserA.id} :
       onRequest("c1", route, cred)
  \/ \E b \in EmptyOrNameBodies : UpdateUserPrepare("c1", b)
  \/ UpdateUserWrite("c1")
  \/ \E id \in TaskIdInputs, b \in PlainUpdateBodies : UpdateTaskPrepare("c1", id, b)
  \/ UpdateTaskWrite("c1")

SpecUpdates == InitUpdates /\ [][NextUpdates]_vars

\* one client's creates, with every kind of body, and its gets and deletes
NextCreate ==
  \/ \E cred \in SignedCreds : onRequest("c1", "tasks", cred)
  \/ \E b \in CreateTaskBodies : CreateTask("c1", b)
  \/ \E id \in TaskIdInputs : GetTask("c1", id)
  \/ \E id \in TaskIdInputs : DeleteTask("c1", id)

SpecCreate == InitTwoUsers /\ [][NextCreate]_vars

\* the password utilities on their own: hash one password, verify another
Passwords ==
  {"pw123456", "pw654321", "short", "", "testPassword123", "wrongPassword",
   LongPasswordA, LongPasswordB}

HashThenVerify(password, candidate, salt) ==
  /\ last' = [client |-> "none", op |-> "verifyPassword",
              input |-> [password |-> password, candidate |-> candidate],
              status |-> 0,
              body |-> [hash |-> hashPassword(password, salt),
                        isValid |-> verifyPassword(candidate, hashPassword(password, salt))],
              dbCalls |-> 0]
  /\ UNCHANGED <<users, tasks, nextTaskId, now, req, view>>

NextPasswords ==
  \E password \in Passwords, candidate \in Passwords, salt \in Salts :
    HashThenVerify(password, candidate, salt)

SpecPasswords == Init /\ [][NextPasswords]_vars

\* user A's updates of its tasks while the clock runs, with bodies that also
\* carry fields the handler does not read: another owner, another createdAt
ForgingUpdateBodies ==
  [title : {undefined, Some("u")}, description : {undefined, Some("e")},
   completed : {undefined, Some(TRUE)}, userId : {undefined, Some(UserB.id)},
   createdAt : {undefined, Some(MaxTime)}]

InitFrame ==
  /\ users = {UserA, UserB}
  /\ tasks = {TaskOfA(1), TaskOfA(2)}
  /\ nextTaskId = 3
  /\ now = 0
  /\ req = [c \in Clients |-> Idle]
  /\ last = NoLast
  /\ view = Unmounted

NextFrame ==
  \/ Tick
  \/ \E cred \in {k \in SignedCreds : k.userId = UserA.id} : onRequest("c1", "tasks", cred)
  \/ \E id \in TaskIdInputs, b \in ForgingUpdateBodies : UpdateTaskPrepare("c1", id, b)
  \/ UpdateTaskWrite("c1")

SpecFrame == InitFrame /\ [][NextFrame]_vars

\* one registered user; logins, a second registration, profile and email
\* updates and GET /users/me by one client while the clock runs
InitOneUser ==
  /\ users = {UserA}
  /\ tasks = {}
  /\ nextTaskId = 1
  /\ now = 0
  /\ req = [c \in Clients |-> Idle]
  /\ last = NoLast
  /\ view = Unmounted

ProfileBodies ==
  {[name |-> Some("B"), email |-> undefined], [name |-> undefined, email |-> Some("b@x.com")]}

NextStateless ==
  \/ Tick
  \/ \E b \in ValidLoginBodies : Login("c1", b)
  \/ \E b \in PlainRegisterBodies : RegisterCheck("c1", b)
  \/ RegisterInsert("c1", "s1")
  \/ \E cred \in Creds : onRequest("c1", "users", cred)
  \/ GetUser("c1")
  \/ \E b \in ProfileBodies : UpdateUserPrepare("c1", b)
  \/ UpdateUserWrite("c1")

SpecStateless == InitOneUser /\ [][NextStateless]_vars

\* two clients of user A update A's one task at the same time while the
\* clock runs
RaceBodies ==
  {[title |-> Some("u"), description |-> undefined, completed |-> undefined],
   [title |-> Some("v"), description |-> undefined, completed |-> undefined],
   [title |-> undefined, description |-> Some("e"), completed |-> Some(TRUE)],
   [title |-> Some("v"), description |-> undefined, completed |-> Some(FALSE)]}

NextRace ==
  \/ Tick
  \/ \E c \in Clients, cred \in {k \in SignedCreds : k.userId = UserA.id} :
       onRequest(c, "tasks", cred)
  \/ \E c \in Clients, id \in {t.id : t \in tasks}, b \in RaceBodies : UpdateTaskPrepare(c, id, b)
  \/ \E c \in Clients : UpdateTaskWrite(c)

SpecRace == InitUpdates /\ [][NextRace]_vars

\* creates whose bodies also carry fields the handler does not read: an
\* owner, a completed flag
ForgingCreateBodies ==
  [title : {Some("t")}, description : {undefined, Some("d")},
   userId : {undefined, Some(UserA.id), Some(UserB.id)},
   completed : {undefined, Some(TRUE)}]

NextForge ==
  \/ \E cred \in SignedCreds : onRequest("c1", "tasks", cred)
  \/ \E b \in ForgingCreateBodies : CreateTask("c1", b)
  \/ \E id \in TaskIdInputs : GetTask("c1", id)

SpecForge == InitTwoUsers /\ [][NextForge]_vars

\* the TaskList component of user A, who has one task, and the server
InitTaskList ==
  /\ users = {UserA, UserB}
  /\ tasks = {TaskOfA(1)}
  /\ nextTaskId = 2
  /\ now = 0
  /\ req = [c \in Clients |-> Idle]
  /\ last = NoLast
  /\ view = Mounted

NextTaskList ==
  \/ \E k \in 1 .. MaxCalls : StartCreate(k, "t")
  \/ \E k \in 1 .. MaxCalls, i \in 1 .. MaxTasks : StartToggle(k, i)
  \/ \E k \in 1 .. MaxCalls, i \in 1 .. MaxTasks : StartDelete(k, i)
  \/ \E k \in 1 .. MaxCalls : ServeCall(k, UserA.id)
  \/ \E k \in 1 .. MaxCalls : ResolveCall(k)

SpecTaskList == InitTaskList /\ [][NextTaskList]_vars

(* ------------------------------ properties ----------------------------- *)
\* some task with this id belongs to a user other than userId
ForeignTask(userId, id) == \E t \in tasks : t.id = id /\ t.userId # userId

Response(l) == [status |-> l.status, body |-> l.body]

\* C1: a get, update or delete that reaches the store with the id of another
\* user's task is answered 404, and with exactly the response the same
\* request gets for an id no task ever had (nextTaskId is not handed out yet)
C1_ForeignTaskIsNotFound ==
  (/\ last.op \in {"getTask", "updateTask", "deleteTask"}
   /\ last.dbCalls = 1
   /\ ForeignTask(last.input.userId, last.input.id))
  => /\ last.status = 404
     /\ last.body.error = "NotFoundError"
     /\ last.op = "getTask" =>
          Response(last) = getTaskHandler(last.input.userId, nextTaskId)
     /\ last.op = "deleteTask" =>
          Response(last) = deleteTaskHandler(last.input.userId, nextTaskId)
     /\ last.op = "updateTask" =>
          Response(last) = updateTaskHandler([last.input EXCEPT !.id = nextTaskId])

C1_Witness ==
  /\ last.op = "updateTask"
  /\ last.dbCalls = 1
  /\ ForeignTask(last.input.userId, last.input.id)
  /\ last.status = 404

TasksOf(a) == {t \in tasks : t.userId = a}

\* the user a request in flight acts for
Caller(c) ==
  IF req[c].pc = "handler" THEN req[c].cred.userId
  ELSE IF req[c].pc = "write" THEN req[c].body.userId
  ELSE IF req[c].pc = "count" THEN req[c].body.query.userId
  ELSE 0

C2_OnlyOwnRows ==
  /\ (last.op = "getTask" /\ last.status = 200) => last.body.userId = last.input.userId
  /\ (last.op = "listTasks" /\ last.status = 200) =>
       \A i \in 1 .. Len(last.body.data) : last.body.data[i].userId = last.input.userId

C2_OthersLeaveTasksAlone ==
  \A a \in UserIds :
    (\A c \in Clients : req'[c] # req[c] => Caller(c) # a) => TasksOf(a)' = TasksOf(a)

\* C2: a step of a request that acts for another user leaves every task of
\* user a as it was, and every row a get or a list returns belongs to the
\* user the request acts for
C2_OwnershipIsolation == []C2_OnlyOwnRows /\ [][C2_OthersLeaveTasksAlone]_vars

C2_Witness ==
  /\ last.op = "listTasks"
  /\ last.status = 200
  /\ Len(last.body.data) >= 1
  /\ \E t \in tasks : t.userId # last.input.userId

UnknownEmail(b) == UsersByEmail(b.email) = {}
WrongPassword(b) ==
  \E u \in UsersByEmail(b.email) : ~verifyPassword(b.password, u.passwordHash)

Resolves(token, id) ==
  getUserIdFromToken(token, now).ok /\ getUserIdFromToken(token, now).userId = id

\* C4: a register with a valid body fails only when its email is registered;
\* when it succeeds, its token resolves to the id of the user it created, and
\* a login with the same email and password right after it succeeds with a
\* token that resolves to the same id
C4_RegisterThenLogin ==
  /\ (last.op = "register" /\ registerSchema(last.input) /\ last.status # 200)
     => UsersByEmail(last.input.email) # {}
  /\ (last.op = "register" /\ last.status = 200)
     => LET login == loginHandler([email |-> last.input.email,
                                   password |-> last.input.password])
            id == last.body.user.id
        IN /\ \E u \in users : u.id = id /\ u.email = last.input.email
           /\ Resolves(last.body.token, id)
           /\ login.status = 200
           /\ login.body.user.id = id
           /\ Resolves(login.body.token, id)

C4_Witness ==
  /\ last.op = "register"
  /\ last.status = 200
  /\ Cardinality(users) = 2

HasToken(body) == "token" \in DOMAIN body

\* one step of client c that answers a register with a valid body
C5_Step(c) ==
  (last'.op = "register" /\ last'.client = c /\ registerSchema(last'.input)) =>
    LET email == last'.input.email
        taken == UsersByEmail(email) # {}
        created ==
          \E u \in users' :
            /\ u \notin users
            /\ users' = users \cup {u}
            /\ u.email = email
            /\ last'.body.user.id = u.id
            /\ HasToken(last'.body)
            /\ last'.body.token.userId = u.id
        refused == users' = users /\ ~HasToken(last'.body)
    IN /\ (req[c].pc = "idle" /\ taken) => (last'.status = 409 /\ refused)
       /\ last'.status = 409 => (taken /\ refused)
       /\ ~taken => (last'.status = 200 /\ created)
       /\ last'.status = 200 => (~taken /\ created)
       /\ last'.status # 200 => refused

\* C5: a register whose existence check finds its email in the store is
\* answered 409, adds and changes no user row and returns no token; a
\* register whose email is free adds exactly one row with that email and
\* returns a token for it; no other register changes the store
C5_RegisterConflictOrCreate == [][\A c \in Clients : C5_Step(c)]_vars

C5_Witness ==
  /\ last.op = "register"
  /\ last.status = 409
  /\ Cardinality(users) = 1

\* C6: of two registers in flight with the same email, the one that does
\* not create the user is answered 409 and nothing else
C6_RegisterFailsOnlyWithConflict ==
  (last.op = "register" /\ registerSchema(last.input) /\ last.status # 200)
  => last.status = 409

\* C7: no two user rows have the same email
C7_EmailUnique == \A u, v \in users : u.email = v.email => u = v

C7_Witness ==
  /\ last.op = "updateUser"
  /\ last.status = 500
  /\ Cardinality(users) = 2

UserFields == {"id", "email", "name", "createdAt", "updatedAt"}

\* C8: the user in a response of login, register, get-user or update-user
\* has the fields id, email, name, createdAt, updatedAt and no other, and an
\* error response has error, message and statusCode only
C8_NoPasswordHashInResponses ==
  last.op \in {"login", "register", "getUser", "updateUser"} =>
    IF last.status # 200
    THEN DOMAIN last.body = {"error", "message", "statusCode"}
    ELSE IF last.op \in {"login", "register"}
    THEN /\ DOMAIN last.body = {"user", "token", "expiresIn"}
         /\ DOMAIN last.body.user = UserFields
    ELSE DOMAIN last.body = UserFields

C8_Witness ==
  /\ last.op = "updateUser"
  /\ last.status = 200
  /\ \E u \in users : u.id = last.body.id /\ "passwordHash" \in DOMAIN u

\* a token that is absent, malformed, wrongly signed or expired
Rejectable(cred) ==
  \/ cred.kind = "absent"
  \/ cred.kind = "malformed"
  \/ cred.sig # "server"
  \/ now >= cred.exp

C9_Step ==
  /\ \A c \in Clients :
       (req[c].pc = "idle" /\ req'[c].pc = "handler") => ~Rejectable(req'[c].cred)
  /\ \A c \in Clients :
       (req[c].pc = "idle" /\ req'[c].pc = "idle" /\ last'.client = c
        /\ last'.op \in {"users", "tasks"})
       => /\ last'.status = 401
          /\ last'.body.statusCode = 401
          /\ last'.dbCalls = 0
          /\ users' = users /\ tasks' = tasks

\* C9: no request to a user or task route with an absent, malformed, wrongly
\* signed or expired token reaches the route's handler; it is answered by
\* the hook, with 401 and without a store call
C9_BadTokenIs401BeforeHandler == [][C9_Step]_vars

C9_Witness ==
  /\ last.op = "tasks"
  /\ last.status = 401
  /\ last.input.cred.sig = "server"
  /\ now >= last.input.cred.exp

\* C10: a handler whose own verification of the token fails answers 401
C10_HandlerVerificationFailureIs401 ==
  (/\ last.op \in {"getUser", "getTask", "createTask", "deleteTask", "listTasks"}
   /\ last.input.userId = 0)
  => last.status = 401

\* C11: a token that login or register returns is issued now for the
\* response's user; the expiresIn returned with it is the token's lifetime
\* (exp - iat) in seconds; at every time before issue time + expiresIn the
\* token verifies and resolves to that user, and at every time from then on
\* it is rejected as expired
C11_TokenLifetime ==
  (last.op \in {"login", "register"} /\ last.status = 200) =>
    LET token == last.body.token
        u == last.body.user.id
    IN /\ token.iat = now
       /\ last.body.expiresIn = (token.exp - token.iat) * WeekSeconds
       /\ last.body.expiresIn = 604800
       /\ \A t \in now .. MaxTime + TOKEN_WEEKS + 1 :
            IF t * WeekSeconds < now * WeekSeconds + last.body.expiresIn
            THEN /\ jwtVerify(token, t) = "ok"
                 /\ getUserIdFromToken(token, t).ok
                 /\ getUserIdFromToken(token, t).userId = u
            ELSE /\ jwtVerify(token, t) = "expired"
                 /\ ~getUserIdFromToken(token, t).ok

C11_Witness ==
  /\ last.op = "login"
  /\ last.status = 200
  /\ now >= 1
  /\ \E u \in users : u.id = last.body.user.id /\ u.createdAt < now

Max(a, b) == IF a > b THEN a ELSE b

\* a list request without a completed filter whose page and limit are in
\* range: page >= 1 and limit in 1 .. 100
InRange(query) ==
  /\ ToNumber(query.page) >= 1
  /\ ToNumber(query.limit) >= 1
  /\ ToNumber(query.limit) <= 100

\* C12: a list request of a user owning N tasks, with page p >= 1 and limit
\* L in 1 .. 100, is answered 200 with pagination {page: p, limit: L,
\* total: N, totalPages: ceil(N / L)}, all four numbers, and with
\* min(L, max(0, N - (p - 1) * L)) items
C12_PaginationArithmetic ==
  (/\ last.op = "listTasks"
   /\ last.input.userId # 0
   /\ last.input.completed = undefined
   /\ InRange(last.input))
  => LET N == Cardinality(TasksOf(last.input.userId))
         p == ToNumber(last.input.page)
         L == ToNumber(last.input.limit)
     IN /\ last.status = 200
        /\ last.body.pagination =
             [page |-> Num(p), limit |-> Num(L), total |-> Num(N),
              totalPages |-> Num(CeilDiv(N, L))]
        /\ Len(last.body.data) = Min(L, Max(0, N - (p - 1) * L))

\* the sequence lists every task of the set exactly once
ListsOnce(seq, S) ==
  /\ Len(seq) = Cardinality(S)
  /\ {seq[i] : i \in 1 .. Len(seq)} = S

\* newest first, tasks of equal createdAt in the order of their ids
NewestFirstById(seq) ==
  \A i, j \in 1 .. Len(seq) :
    i < j => \/ seq[i].createdAt > seq[j].createdAt
             \/ seq[i].createdAt = seq[j].createdAt /\ seq[i].id < seq[j].id

\* C13: while no task changes, page 1 (just answered) followed by page 2 (read
\* by a request in flight with the same user and limit) of a two-page
\* listing contains every task of the user exactly once, newest first with
\* ties in the order of the ids
C13_PagesPartitionNewestFirst ==
  \A d \in Clients :
    (/\ last.op = "listTasks" /\ last.status = 200
     /\ req[d].pc = "count"
     /\ req[d].body.query.userId = last.input.userId
     /\ req[d].body.query.completed = undefined /\ last.input.completed = undefined
     /\ ToNumber(req[d].body.query.limit) = ToNumber(last.input.limit)
     /\ ToNumber(last.input.page) = 1
     /\ ToNumber(req[d].body.query.page) = 2
     /\ last.body.pagination.totalPages = Num(2))
    => /\ ListsOnce(last.body.data \o req[d].body.taskList, TasksOf(last.input.userId))
       /\ NewestFirstById(last.body.data \o req[d].body.taskList)

\* C14: a list request with page < 1, limit < 1 or limit > 100 is answered 400
C14_OutOfRangeListIs400 ==
  (/\ last.op = "listTasks"
   /\ last.input.userId # 0
   /\ ~InRange(last.input))
  => last.status = 400

EmptyTaskUpdate(input) ==
  input.title = undefined /\ input.description = undefined /\ input.completed = undefined

EmptyUserUpdate(input) == Falsy(input.name) /\ Falsy(input.email)

\* the step's answer is 400 from the handler's own check, and no row changed
RefusedUnchanged ==
  /\ last'.status = 400
  /\ last'.body.error = "BadRequestError"
  /\ last'.dbCalls = 0
  /\ tasks' = tasks
  /\ users' = users

C15_Step ==
  /\ (last'.op = "updateTask" /\ last'.input.userId # 0 /\ EmptyTaskUpdate(last'.input))
     => RefusedUnchanged
  /\ (last'.op = "updateUser" /\ last'.input.userId # 0 /\ EmptyUserUpdate(last'.input))
     => RefusedUnchanged

\* C15: a PATCH /tasks/:id whose body has none of title, description and
\* completed, and a PATCH /users/me whose body has neither name nor email,
\* is answered 400 without a store call, and no row changes, updatedAt
\* included
C15_EmptyUpdateRefused == [][C15_Step]_vars

C15_Witness ==
  /\ last.op = "updateTask"
  /\ last.status = 400
  /\ EmptyTaskUpdate(last.input)
  /\ \E t \in tasks :
       t.id = last.input.id /\ t.userId = last.input.userId /\ t.updatedAt < now

C16_Step ==
  (last'.op = "createTask" /\ last'.input.userId # 0) =>
    IF Falsy(last'.input.title)
    THEN last'.status = 400 /\ tasks' = tasks
    ELSE /\ last'.status = 200
         /\ \E t \in tasks' :
              /\ t \notin tasks
              /\ tasks' = tasks \cup {t}
              /\ t.title = last'.input.title[1]
              /\ t.description = last'.input.description

\* C16: a POST /tasks with a missing or empty title is answered 400 and
\* inserts no row; one with a non-empty title inserts exactly one row, with
\* the title and the description of the body
C16_CreateValidatesTitle == [][C16_Step]_vars

\* C17: after an accepted create, the same user's get of the returned id
\* returns the entity create returned, with the title and the description
\* the body supplied (an absent description being null)
C17_CreateThenGet ==
  (last.op = "createTask" /\ last.status = 200) =>
    LET got == getTaskHandler(last.input.userId, last.body.id)
    IN /\ got.status = 200
       /\ got.body = last.body
       /\ got.body.title = last.input.title[1]
       /\ got.body.description = last.input.description

\* a get, a delete and an update of the id by the user are answered 404
Gone(userId, id) ==
  /\ getTaskHandler(userId, id).status = 404
  /\ deleteTaskHandler(userId, id).status = 404
  /\ \A b \in UpdateTaskBodies :
       updateTaskHandler([userId |-> userId, id |-> id, title |-> b.title,
                          description |-> b.description, completed |-> b.completed,
                          updatedAt |-> now]).status = 404

C18_Step ==
  \A userId \in UserIds, id \in TaskIdInputs :
    (last'.op = "deleteTask" /\ last'.input.userId = userId /\ last'.input.id = id) =>
      LET rows == {t \in tasks : t.id = id /\ t.userId = userId}
      IN /\ IF rows # {}
            THEN /\ last'.status = 200
                 /\ last'.body = [success |-> TRUE]
                 /\ Cardinality(rows) = 1
                 /\ tasks' = tasks \ rows
            ELSE /\ last'.status = 404
                 /\ last'.body.error = "NotFoundError"
                 /\ tasks' = tasks
         /\ Gone(userId, id)'

\* C18: a delete of an existing task by its owner is answered {success:
\* true} and removes that row and no other; a delete that removes no row is
\* answered 404 and changes nothing; either way a get, a second delete and
\* an update of the id by that user are answered 404 afterwards
C18_DeleteRemovesExactlyOne == [][C18_Step]_vars

C18_Witness ==
  /\ last.op = "deleteTask"
  /\ last.status = 200
  /\ tasks # {}

\* the messages of the store driver's errors
InternalTexts == {UniqueViolation.message, NotNullViolation.message, NegativeOffset.message}

\* C19: every response other than a 200 has the body {error, message,
\* statusCode} with statusCode the response's status, and a 500 does not
\* carry the message of a store driver's error
C19_ErrorBodyHidesInternals ==
  (last.op # "none" /\ last.status # 200) =>
    /\ DOMAIN last.body = {"error", "message", "statusCode"}
    /\ last.body.statusCode = last.status
    /\ last.status = 500 => last.body.message \notin InternalTexts

\* C20: verifying a candidate against the hash of a password gives a
\* boolean, true when the candidate is the password and false when it is
\* another string, and the hash is a bcrypt hash, not the password
C20_VerifyIffSamePassword ==
  last.op = "verifyPassword" =>
    /\ last.body.isValid \in BOOLEAN
    /\ last.body.isValid = (last.input.candidate = last.input.password)
    /\ DOMAIN last.body.hash = {"alg", "cost", "salt", "digest"}

C22_Step ==
  /\ \A t \in tasks : \E n \in tasks' :
       n.id = t.id /\ n.userId = t.userId /\ n.createdAt = t.createdAt
  /\ Cardinality(tasks') = Cardinality(tasks)

\* C22: no step of an update request, whatever its body carries, changes
\* the id, the owner or the createdAt of a task, or the number of tasks
C22_OwnerIdCreatedAtImmutable == [][C22_Step]_vars

C22_Witness ==
  /\ last.op = "updateTask"
  /\ last.status = 200
  /\ last.body.updatedAt > last.body.createdAt
  /\ last.body.title = "u"

\* the step is an update of the task (userId, id) answered 200
UpdatedOk(userId, id) ==
  /\ last'.op = "updateTask" /\ last'.status = 200
  /\ last'.input.userId = userId /\ last'.input.id = id

C28_Step ==
  \A userId \in UserIds, id \in TaskIdInputs :
    UpdatedOk(userId, id) =>
      LET d == last'.input
          old == CHOOSE t \in tasks : t.id = id
          new == CHOOSE t \in tasks' : t.id = id
      IN /\ \E t \in tasks : t.id = id /\ t.userId = userId
         /\ new.title = (IF d.title = undefined THEN old.title ELSE d.title[1])
         /\ new.description =
              (IF d.description = undefined THEN old.description ELSE d.description)
         /\ new.completed =
              (IF d.completed = undefined THEN old.completed ELSE d.completed[1])
         /\ new.updatedAt = d.updatedAt
         /\ new.id = old.id /\ new.userId = old.userId /\ new.createdAt = old.createdAt
         /\ last'.body = new
         /\ {t \in tasks' : t.id # id} = {t \in tasks : t.id # id}

\* C28: an update answered 200 leaves the row with the body's title,
\* description and completed where the body has them, the previous values
\* where it has not, and the handler's timestamp as updatedAt; it returns
\* that row and changes no other row
C28_UpdateChangesOnlySupplied == [][C28_Step]_vars

C28_Witness ==
  /\ last.op = "updateTask"
  /\ last.status = 200
  /\ last.input.title = undefined
  /\ last.input.completed = Some(TRUE)
  /\ last.body.title = "u"
  /\ last.body.description = Some("e")
  /\ \E t \in tasks : t.id # last.input.id /\ t.title = "u"

\* a token the server signed that has not expired
Unexpired(cred) == cred.kind = "jwt" /\ cred.sig = "server" /\ now < cred.exp

C23_Step ==
  \A c \in Clients :
    \* the hook turns away no unexpired token of the server
    /\ (req[c].pc = "idle" /\ last'.client = c /\ last'.op = "users")
       => ~Unexpired(last'.input.cred)
    \* and GET /users/me with one answers with the user the token names
    /\ (req[c].pc = "handler" /\ Unexpired(req[c].cred)
        /\ last'.client = c /\ last'.op = "getUser")
       => /\ last'.status = 200
          /\ last'.input.userId = req[c].cred.userId
          /\ last'.body.id = req[c].cred.userId

\* C23: whatever logins, registrations and profile or email updates came
\* before, a request with an unexpired token of the server passes the hook,
\* and the handler resolves it to the user id in the token
C23_StatelessTokens == [][C23_Step]_vars

C23_Witness ==
  /\ last.op = "getUser"
  /\ last.status = 200
  /\ last.body.email = "b@x.com"
  /\ last.body.id = UserA.id
  /\ last.body.updatedAt > 0
  /\ Cardinality(users) = 1



\* C24: the data of a list response has min(limit, max(0, total - offset))
\* items, for the total of the same response
C24_DataConsistentWithTotal ==
  (last.op = "listTasks" /\ last.status = 200) =>
    LET limit == ToNumber(last.body.pagination.limit)
        offset == (ToNumber(last.body.pagination.page) - 1) * limit
        total == last.body.pagination.total.num
    IN Len(last.body.data) = Min(limit, Max(0, total - offset))

\* the value an update supplies for a field, if any
Supplied(d, f) == d[f] # undefined
FieldValue(d, f) == IF f = "description" THEN d[f] ELSE d[f][1]
TaskFields == {"title", "description", "completed"}
\* the step is a successful write by one client right after a successful
\* write of the same task by the other, whose request was then already
\* waiting for the store
SecondOfTwoWrites ==
  /\ last.op = "updateTask" /\ last.status = 200
  /\ last'.op = "updateTask" /\ last'.status = 200
  /\ last'.client # last.client
  /\ last'.input.id = last.input.id

\* C25: after two concurrent updates of one task the row is the result of
\* applying them in the order they were written: a field both set has the
\* later write's value, a field one set has that update's value
C25_Step ==
  SecondOfTwoWrites =>
    \A n \in tasks' :
      n.id = last'.input.id =>
        /\ n = last'.body
        /\ n = SetTask(last.body, last'.input)
        /\ \A f \in TaskFields :
             /\ Supplied(last'.input, f) => n[f] = FieldValue(last'.input, f)
             /\ (~Supplied(last'.input, f) /\ Supplied(last.input, f))
                  => n[f] = FieldValue(last.input, f)
C25_LastWriteWinsPerField == [][C25_Step]_vars
C25_Witness ==
  /\ last.op = "updateTask" /\ last.status = 200 /\ last.client = "c2"
  /\ last.body.title = "u" /\ last.body.completed = TRUE /\ last.body.description = Some("e")
  /\ last.input.title = undefined

\* C29: a task's updatedAt is never earlier than its createdAt and never
\* decreases
C29_Step ==
  \A t \in tasks, n \in tasks' :
    n.id = t.id => /\ n.updatedAt >= n.createdAt
                   /\ n.updatedAt >= t.updatedAt
C29_UpdatedAtMonotonic == [][C29_Step]_vars

\* the update waiting for the store sets an email that another user holds
EmailTaken(d) ==
  /\ d.email # undefined
  /\ \E o \in users : o.id # d.userId /\ o.email = d.email[1]

\* C26: update-user with an email a different user holds fails with 409
\* Conflict and leaves the user rows unchanged
C26_Step ==
  \A c \in Clients :
    (/\ req[c].pc = "write" /\ req[c].route = "users" /\ EmailTaken(req[c].body)
     /\ last'.client = c /\ last'.op = "updateUser")
      => /\ last'.status = 409
         /\ users' = users
C26_TakenEmailConflict == [][C26_Step]_vars

\* C27: a task created through POST /tasks belongs to the subject of the
\* request's token and is not completed, whatever userId or completed value
\* the body carries
C27_Step ==
  \A c \in Clients :
    (req[c].pc = "handler" /\ last'.client = c /\ last'.op = "createTask" /\ last'.status = 200)
      => /\ tasks' \ tasks = {last'.body}
         /\ last'.body.userId = req[c].cred.userId
         /\ last'.body.completed = FALSE
         /\ tasks \subseteq tasks'
C27_CreatedTaskOwnedByCaller == [][C27_Step]_vars
C27_Witness ==
  /\ last.op = "createTask" /\ last.status = 200
  /\ last.input.body.userId = Some(UserB.id) /\ last.input.body.completed = Some(TRUE)
  /\ last.input.userId = UserA.id
  /\ last.body \in tasks

\* the component awaits nothing and every call it made succeeded
Settled ==
  /\ ~view.loading /\ ~view.failed
  /\ \A k \in 1 .. MaxCalls : view.calls[k] = NoCall
Displayed == {view.tasks[i] : i \in 1 .. Len(view.tasks)}

\* C30: once no request of the TaskList component is in flight, and all
\* succeeded, the displayed list is the loaded list with the creates,
\* toggles and deletes applied: the user's tasks as the server holds them,
\* each once
C30_DisplayedListSettles ==
  (view # Unmounted /\ Settled) =>
    /\ Displayed = TasksOf(UserA.id)
    /\ Len(view.tasks) = Cardinality(Displayed)

====
